---------------------------- MODULE Spec2Model ----------------------------
(***************************************************************************)
(* A model of the sharded LRU cache of src/main.go.                        *)
(*                                                                         *)
(* The cache is a fixed array of shards; every shard owns a lookup table   *)
(* (key -> node pointer) and a doubly linked recency list between two      *)
(* sentinel nodes.  Nodes live in one heap, addressed by integers, so the  *)
(* pointer assignments of addToFront / removeNode are modelled one by one. *)
(*                                                                         *)
(* NewLRUCache makes at least 1024 shards and twice as many sentinels.  A  *)
(* state writes down only the shards and sentinels that differ from what   *)
(* newShard made; ShardAt and NodeAt read the array and the heap in full.  *)
(* Keys are byte strings (sequences of bytes) and are routed to a shard by *)
(* the 32-bit FNV-1a hash, computed here on two 16-bit halves.             *)
(*                                                                         *)
(* Spec is the cache used by one caller: Get and Put hold their shard's    *)
(* lock from the first to the last statement, so each is one atomic action *)
(* there, and Clear is the whole sweep over the shards.  Conc is the cache *)
(* used by several goroutines at once, every call taken apart into its     *)
(* lock, its statements and its unlock.                                    *)
(***************************************************************************)
EXTENDS Integers, Sequences, FiniteSets, TLC

\* ------------------------------------------------------------------ bounds

\* How many keys of KeyPool the callers use.
NumKeys == 4

\* How many distinct payloads the callers store (payloads are 1..NumValues).
NumValues == 2

\* Keys, as the bytes of "t", "iu", "s3", "a", "68", "b".  The FNV-1a hashes
\* of "t", "iu", "s3" and "68" agree on their low 11 bits, so these keys meet
\* in one shard; "a" and "b" go elsewhere.
KeyPool == << <<116>>, <<105, 117>>, <<115, 51>>, <<97>>, <<54, 56>>, <<98>> >>

Keys == {KeyPool[i] : i \in 1..NumKeys}

Values == 1..NumValues

\* The keys the concurrent callers use: two that one shard gets and one of
\* another shard.  The capacity and the processors of their cache.
ConcKeys == {KeyPool[1], KeyPool[2], KeyPool[4]}

ConcCapacity == 2048

ConcCPU == 8

\* How many goroutines call the cache at once, and how many calls each makes.
NumProcs == 2

MaxCalls == 2

\* How many calls each goroutine makes where progress is checked.
LiveCalls == 1

\* The capacities passed to NewLRUCache and the values of runtime.NumCPU().
Capacities == {-1, 0, 1, 2048}

NumCPUs == {8, 257}

\* ------------------------------------------------------- nil and pointers

\* The nil interface value (the value of a sentinel, the result of a miss).
NilValue == 0

\* The nil *Node.
NilPtr == -1

\* The empty string, the key of a sentinel.
NoKey == << >>

\* --------------------------------------------------------------- hashing

\* 2^16: a uint32 is kept as its two 16-bit halves [hi, lo].
Half == 256 * 256

\* Bitwise operators on naturals below 2^n.
RECURSIVE XorBits(_, _, _)
XorBits(a, b, n) ==
    IF n = 0 THEN 0
    ELSE (((a % 2) + (b % 2)) % 2) + 2 * XorBits(a \div 2, b \div 2, n - 1)

RECURSIVE AndBits(_, _, _)
AndBits(a, b, n) ==
    IF n = 0 \/ a = 0 \/ b = 0 THEN 0
    ELSE ((a % 2) * (b % 2)) + 2 * AndBits(a \div 2, b \div 2, n - 1)

\* hash/fnv's 32-bit offset basis 0x811C9DC5 and prime 0x01000193, by halves.
OffsetHi == 33052

OffsetLo == 40389

PrimeHi == 256

PrimeLo == 403

\* One round of FNV-1a: h ^= b; h *= prime (mod 2^32).
fnvStep(h, b) ==
    LET lo == (h.lo - (h.lo % 256)) + XorBits(h.lo % 256, b, 8)
        p  == lo * PrimeLo
    IN  [hi |-> ((h.hi * PrimeLo) + (lo * PrimeHi) + (p \div Half)) % Half,
         lo |-> p % Half]

RECURSIVE fnvWrite(_, _)
fnvWrite(h, bytes) ==
    IF bytes = << >> THEN h ELSE fnvWrite(fnvStep(h, Head(bytes)), Tail(bytes))

\* LRUCache.hash: FNV-1a of the key's bytes.
hash(key) == fnvWrite([hi |-> OffsetHi, lo |-> OffsetLo], key)

\* x & mask for a uint32 x in halves and a mask below 2^31.
AndMask(h, mask) ==
    AndBits(h.lo, mask % Half, 16) + Half * AndBits(h.hi, mask \div Half, 16)

\* ----------------------------------------------------------- construction

\* nextPowerOf2 as written: it returns n itself unless n is 0.
nextPowerOf2(n) == IF n = 0 THEN 1 ELSE n

\* Go's integer division truncates toward zero.
GoDiv(a, b) == IF a >= 0 THEN a \div b ELSE -((-a) \div b)

MinShards == 16

ShardFloor == 1024

\* The number of shards NewLRUCache creates on a machine with ncpu CPUs.
numShardsFor(ncpu) ==
    LET n0 == nextPowerOf2(ncpu * 4)
        n1 == IF n0 < MinShards THEN MinShards ELSE n0
    IN  IF n1 < ShardFloor THEN ShardFloor ELSE n1

\* The capacity every shard gets.
\* shardCapacity without the raise to at least 1.
shardCapacityNoFloor(capacity, n) == GoDiv(capacity, n)

shardCapacityFor(capacity, n) ==
    LET c == GoDiv(capacity, n) IN IF c < 1 THEN 1 ELSE c

\* make(map[string]*Node): a lookup table with no key.
EmptyMap == [k \in {} |-> NilPtr]

\* newShard allocates the two sentinels; shard i's are at 2i and 2i+1.
HeadOf(i) == 2 * i

TailOf(i) == 2 * i + 1

\* The shard newShard(capacity) returns, when it is made as the i-th one.
newShard(i, capacity) ==
    [capacity |-> capacity, size |-> 0, cache |-> EmptyMap,
     head |-> HeadOf(i), tail |-> TailOf(i)]

\* The sentinel at address a as newShard leaves it: the head's next is the
\* tail, the tail's prev is the head, the outer pointers are nil.
newSentinel(a) ==
    IF a % 2 = 0
    THEN [key |-> NoKey, value |-> NilValue, prev |-> NilPtr, next |-> a + 1]
    ELSE [key |-> NoKey, value |-> NilValue, prev |-> a - 1, next |-> NilPtr]

\* No shard and no sentinel differs from what newShard made.
NoShards == [i \in {} |-> newShard(i, 1)]

NoNodes == [a \in {} |-> newSentinel(a)]

\* NewLRUCache: the shard count, the mask, and numShards calls of newShard.
NewLRUCache(capacity, ncpu) ==
    LET n == numShardsFor(ncpu) IN
    [shardCount    |-> n,
     shardMask     |-> n - 1,
     shardCapacity |-> shardCapacityFor(capacity, n),
     shards        |-> NoShards,
     heap          |-> NoNodes]

\* ------------------------------------------------------------------ state

VARIABLES
    shardCount,    \* len(c.shards)
    shardMask,     \* c.shardMask
    shardCapacity, \* the capacity NewLRUCache gave to newShard
    shards,        \* c.shards: index -> Shard, where it differs from newShard's
    heap,          \* the Nodes: address -> [key, value, prev, next], likewise
    requested,     \* the capacity NewLRUCache was called with
    last,          \* the last call: its operation, key, value and found flag
    before,        \* the call before the last one
    touched,       \* per shard, what the callers did: the keys in the order
                   \* they last touched them, each with the value last put
    mu,            \* shard.mu: index -> who holds it, where someone does
    pc             \* the goroutines calling the cache concurrently: each
                   \* one's call, its place in it and its local variables

vars == <<shardCount, shardMask, shardCapacity, shards, heap, requested,
          last, before, touched, mu, pc>>

\* c.shards[i].
ShardAt(sh, i) == IF i \in DOMAIN sh THEN sh[i] ELSE newShard(i, shardCapacity)

\* c.shards[i] = s.
SetShard(sh, i, s) ==
    IF s = newShard(i, shardCapacity)
    THEN [j \in DOMAIN sh \ {i} |-> sh[j]]
    ELSE (i :> s) @@ sh

\* The first address after the sentinels of all shards.
FirstNodeAddr == 2 * shardCount

\* *a, for a node pointer a.
NodeAt(h, a) == IF a \in DOMAIN h THEN h[a] ELSE newSentinel(a)

\* *a = n.
SetNode(h, a, n) ==
    IF a < FirstNodeAddr /\ n = newSentinel(a)
    THEN [b \in DOMAIN h \ {a} |-> h[b]]
    ELSE (a :> n) @@ h

SetPrev(h, a, p) == SetNode(h, a, [NodeAt(h, a) EXCEPT !.prev = p])

SetNext(h, a, n) == SetNode(h, a, [NodeAt(h, a) EXCEPT !.next = n])

SetValue(h, a, v) == SetNode(h, a, [NodeAt(h, a) EXCEPT !.value = v])

\* ------------------------------------------------------- the recency list

\* removeNode: node.prev.next = node.next; node.next.prev = node.prev.
removeNode(h, node) ==
    LET h1 == SetNext(h, NodeAt(h, node).prev, NodeAt(h, node).next)
    IN  SetPrev(h1, NodeAt(h1, node).next, NodeAt(h1, node).prev)

\* addToFront without its third statement, s.head.next.prev = node: the
\* node that was first keeps its old prev.
addToFrontNoBackLink(h, s, node) ==
    LET h1 == SetPrev(h, node, s.head)
        h2 == SetNext(h1, node, NodeAt(h1, s.head).next)
    IN  SetNext(h2, s.head, node)

\* addToFront on one list for the whole cache, that of the first shard.
addToFrontShared(h, s, node) ==
    LET h1 == SetPrev(h, node, HeadOf(0))
        h2 == SetNext(h1, node, NodeAt(h1, HeadOf(0)).next)
        h3 == SetPrev(h2, NodeAt(h2, HeadOf(0)).next, node)
    IN  SetNext(h3, HeadOf(0), node)

\* addToFront, one assignment after the other.
addToFront(h, s, node) ==
    LET h1 == SetPrev(h, node, s.head)
        h2 == SetNext(h1, node, NodeAt(h1, s.head).next)
        h3 == SetPrev(h2, NodeAt(h2, s.head).next, node)
    IN  SetNext(h3, s.head, node)

moveToFront(h, s, node) == addToFront(removeNode(h, node), s, node)

\* The addresses met walking next pointers from a up to (not including)
\* stop; the walk gives up at nil or after fuel steps.
RECURSIVE WalkNext(_, _, _, _)
WalkNext(h, a, stop, fuel) ==
    IF a = stop \/ a = NilPtr \/ fuel = 0 THEN << >>
    ELSE <<a>> \o WalkNext(h, NodeAt(h, a).next, stop, fuel - 1)

RECURSIVE WalkPrev(_, _, _, _)
WalkPrev(h, a, stop, fuel) ==
    IF a = stop \/ a = NilPtr \/ fuel = 0 THEN << >>
    ELSE <<a>> \o WalkPrev(h, NodeAt(h, a).prev, stop, fuel - 1)

\* Longer than any list of distinct nodes that are not fresh sentinels.
Fuel(h) == Cardinality(DOMAIN h) + 2

\* The real nodes of shard s, most recently used first.
Nodes(h, s) == WalkNext(h, NodeAt(h, s.head).next, s.tail, Fuel(h))

\* The same nodes found from the tail, least recently used first.
NodesBack(h, s) == WalkPrev(h, NodeAt(h, s.tail).prev, s.head, Fuel(h))

\* The keys of shard s in recency order, most recently used first.
Order(h, s) ==
    LET ns == Nodes(h, s) IN [j \in 1..Len(ns) |-> NodeAt(h, ns[j]).key]

\* -------------------------------------------------------------- the heap

\* The addresses of the real (non-sentinel) nodes.
Real(h) == {a \in DOMAIN h : a >= FirstNodeAddr}

KeySlot(key) == CHOOSE j \in 1..Len(KeyPool) : KeyPool[j] = key

\* &Node{...}: a fresh address.  Any address not in use is a possible
\* outcome and the program only compares node pointers for equality, so the
\* allocator shown is one that prefers a slot of its own for each key and
\* otherwise takes the lowest free address.
Alloc(h, key) ==
    LET pref == FirstNodeAddr + KeySlot(key) - 1
        low  == FirstNodeAddr + Len(KeyPool)
        rest == low..(low + Cardinality(Real(h)))
    IN  IF pref \notin DOMAIN h THEN pref
        ELSE CHOOSE a \in rest : a \notin DOMAIN h /\ \A b \in rest : b < a => b \in DOMAIN h

RECURSIVE Closure(_, _, _)
Closure(h, all, R) ==
    LET R1 == R \cup ({h[a].next : a \in R} \cap all) \cup ({h[a].prev : a \in R} \cap all)
    IN  IF R1 = R THEN R ELSE Closure(h, all, R1)

\* The garbage collector: a real node that no lookup table, no sentinel and
\* no live node points to is gone.  (A shard or sentinel left as newShard
\* made it points to no real node.)
Collect(h, sh) ==
    LET all   == Real(h)
        roots == {a \in all :
                     \/ \E i \in DOMAIN sh : \E k \in DOMAIN sh[i].cache : sh[i].cache[k] = a
                     \/ \E b \in DOMAIN h \ all : h[b].next = a \/ h[b].prev = a}
        live  == Closure(h, all, roots)
    IN  [a \in (DOMAIN h \ (all \ live)) |-> h[a]]

\* ------------------------------------------------------------ operations

\* hash over the keys of KeyPool, computed once and kept as a table.
Hashes == [k \in {} |-> 0] @@ [k \in {KeyPool[j] : j \in 1..Len(KeyPool)} |-> hash(k)]

\* hash(key) & mask.
shardIndex(mask, key) == AndMask(Hashes[key], mask)

\* getShard masking with len(c.shards) in place of len(c.shards) - 1.
getShardByCount(key) == shardIndex(shardMask + 1, key)

\* getShard: the index hash(key) & shardMask into c.shards.
getShard(key) == shardIndex(shardMask, key)

\* Get returning found whether or not the key is in the table.
GetShardAlwaysFound(h, sh, i, key) ==
    LET s == ShardAt(sh, i) IN
    IF key \in DOMAIN s.cache
    THEN LET node == s.cache[key]
             h1   == moveToFront(h, s, node)
         IN  [heap |-> h1, shards |-> sh, value |-> NodeAt(h1, node).value, ok |-> TRUE]
    ELSE [heap |-> h, shards |-> sh, value |-> NilValue, ok |-> TRUE]

\* The body of Get on shard i, under the shard's lock.
GetShard(h, sh, i, key) ==
    LET s == ShardAt(sh, i) IN
    IF key \in DOMAIN s.cache
    THEN LET node == s.cache[key]
             h1   == moveToFront(h, s, node)
         IN  [heap |-> h1, shards |-> sh, value |-> NodeAt(h1, node).value, ok |-> TRUE]
    ELSE [heap |-> h, shards |-> sh, value |-> NilValue, ok |-> FALSE]

\* Put without node.value = value in its overwrite branch.
PutShardKeepsValue(h, sh, i, key, value) ==
    LET s == ShardAt(sh, i) IN
    IF key \in DOMAIN s.cache
    THEN [heap |-> moveToFront(h, s, s.cache[key]), shards |-> sh]
    ELSE LET newNode == Alloc(h, key)
             h1 == SetNode(h, newNode, [key |-> key, value |-> value,
                                        prev |-> NilPtr, next |-> NilPtr])
             s1 == [s EXCEPT !.cache = (key :> newNode) @@ s.cache]
             h2 == addToFront(h1, s1, newNode)
             s2 == [s1 EXCEPT !.size = s1.size + 1]
         IN  [heap |-> h2, shards |-> SetShard(sh, i, s2)]

\* Put without shard.cache[key] = newNode in its insert branch.
PutShardNoTable(h, sh, i, key, value) ==
    LET s == ShardAt(sh, i) IN
    IF key \in DOMAIN s.cache
    THEN LET node == s.cache[key]
             h1   == SetValue(h, node, value)
         IN  [heap |-> moveToFront(h1, s, node), shards |-> sh]
    ELSE LET newNode == Alloc(h, key)
             h1 == SetNode(h, newNode, [key |-> key, value |-> value,
                                        prev |-> NilPtr, next |-> NilPtr])
             h2 == addToFront(h1, s, newNode)
             s2 == [s EXCEPT !.size = s.size + 1]
         IN  [heap |-> h2, shards |-> SetShard(sh, i, s2)]

\* The body of Put on shard i, under the shard's lock.
PutShard(h, sh, i, key, value) ==
    LET s == ShardAt(sh, i) IN
    IF key \in DOMAIN s.cache
    THEN LET node == s.cache[key]
             h1   == SetValue(h, node, value)
         IN  [heap |-> moveToFront(h1, s, node), shards |-> sh]
    ELSE LET newNode == Alloc(h, key)
             h1 == SetNode(h, newNode, [key |-> key, value |-> value,
                                        prev |-> NilPtr, next |-> NilPtr])
             s1 == [s EXCEPT !.cache = (key :> newNode) @@ s.cache]
             h2 == addToFront(h1, s1, newNode)
             s2 == [s1 EXCEPT !.size = s1.size + 1]
             done == [heap |-> h2, shards |-> SetShard(sh, i, s2)]
         IN  \* if shard.size > shard.capacity { return } and then the
             \* function ends: both ways Put returns what it has built.
             IF s2.size > s2.capacity THEN done ELSE done

\* What Clear's loop body makes of shard s.
ClearShard(s) == [s EXCEPT !.cache = EmptyMap, !.size = 0]

\* Clear's loop body without shard.tail.prev = shard.head.
ClearNodeHeadOnly(h, sh, a) ==
    IF a >= FirstNodeAddr THEN NodeAt(h, a)
    ELSE LET s == ShardAt(sh, a \div 2) IN
         IF a = s.head THEN [NodeAt(h, a) EXCEPT !.next = s.tail]
                       ELSE NodeAt(h, a)

\* What Clear's loop body makes of the node at a: the head of a shard gets
\* the tail as its next, the tail gets the head as its prev.
ClearNode(h, sh, a) ==
    IF a >= FirstNodeAddr THEN NodeAt(h, a)
    ELSE LET s == ShardAt(sh, a \div 2) IN
         IF a = s.head THEN [NodeAt(h, a) EXCEPT !.next = s.tail]
                       ELSE [NodeAt(h, a) EXCEPT !.prev = s.head]

\* Clear, the whole sweep over c.shards; the nodes the shards held become
\* garbage.  The loop body leaves a shard that is as newShard made it, and
\* its two sentinels, exactly as they are (ClearShard and ClearNode map
\* newShard's values to themselves), so the sweep is computed over the
\* shards and nodes the state writes down.
ClearAll(h, sh) ==
    LET sh1 == [i \in {j \in DOMAIN sh : ClearShard(sh[j]) # newShard(j, shardCapacity)}
                  |-> ClearShard(sh[i])]
        h1  == [a \in {b \in DOMAIN h : b >= FirstNodeAddr
                                          \/ ClearNode(h, sh, b) # newSentinel(b)}
                  |-> ClearNode(h, sh, a)]
    IN  [heap |-> Collect(h1, sh1), shards |-> sh1]

RECURSIVE SumSizes(_, _)
SumSizes(sh, I) ==
    IF I = {} THEN 0
    ELSE LET i == CHOOSE j \in I : TRUE IN sh[i].size + SumSizes(sh, I \ {i})

\* Size: the sum of shard.size over c.shards (the shards not written down
\* each add the size newShard gave them).
SizeOf(sh) ==
    SumSizes(sh, DOMAIN sh)
        + (shardCount - Cardinality(DOMAIN sh)) * newShard(0, shardCapacity).size

Size == SizeOf(shards)

\* ------------------------------------------------- the callers' history

\* What the callers did to shard i since the last Clear: one [key, value]
\* per key they put, the most recently touched (by Get or Put) first.
Touched(i) == IF i \in DOMAIN touched THEN touched[i] ELSE << >>

Without(seq, key) == SelectSeq(seq, LAMBDA e : e.key # key)

KeysOf(seq) == [j \in 1..Len(seq) |-> seq[j].key]

\* The value last put for key, if the callers put it into shard i.
PutValue(i, key) ==
    LET hit == SelectSeq(Touched(i), LAMBDA e : e.key = key)
    IN  IF hit = << >> THEN NilValue ELSE hit[1].value

\* A Put(key, value) reached shard i.
TouchPut(i, key, value) ==
    (i :> (<<[key |-> key, value |-> value]>> \o Without(Touched(i), key))) @@ touched

\* A Get(key) found key in shard i.
TouchGet(i, key) ==
    (i :> (<<[key |-> key, value |-> PutValue(i, key)]>> \o Without(Touched(i), key)))
        @@ touched

NoTouch == [i \in {} |-> << >>]

Call(op, key, value, ok) == [op |-> op, key |-> key, value |-> value, ok |-> ok]

\* What is remembered of a call once another one followed it.
Earlier(call) == [op |-> call.op, key |-> call.key, value |-> call.value]

\* ------------------------------------------------------------- goroutines

Procs == 1..NumProcs

\* A sync.RWMutex nobody holds, and c.shards[i].mu.
Unlocked == [writer |-> 0, readers |-> {}]

NoLocks == [i \in {} |-> Unlocked]

MuAt(m, i) == IF i \in DOMAIN m THEN m[i] ELSE Unlocked

SetMu(m, i, l) ==
    IF l = Unlocked THEN [j \in DOMAIN m \ {i} |-> m[j]] ELSE (i :> l) @@ m

NoSizes == [i \in {} |-> 0]

\* A goroutine between two calls, with left calls still to make.
Idle(left) ==
    [op |-> "idle", at |-> "idle", key |-> NoKey, value |-> NilValue,
     ok |-> FALSE, node |-> NilPtr, shard |-> 0, total |-> 0,
     sizes |-> NoSizes, base |-> 0, cleared |-> FALSE, left |-> left]

\* ---------------------------------------------------------------- actions

Init ==
    \E capacity \in Capacities, ncpu \in NumCPUs :
        LET c == NewLRUCache(capacity, ncpu) IN
        /\ shardCount = c.shardCount
        /\ shardMask = c.shardMask
        /\ shardCapacity = c.shardCapacity
        /\ shards = c.shards
        /\ heap = c.heap
        /\ requested = capacity
        /\ last = Call("New", NoKey, NilValue, FALSE)
        /\ before = Earlier(Call("New", NoKey, NilValue, FALSE))
        /\ touched = NoTouch
        /\ mu = NoLocks
        /\ pc = [p \in Procs |-> Idle(MaxCalls)]

Get(key) ==
    \E i \in {getShard(key)} :
    \E r \in {GetShard(heap, shards, i, key)} :
        /\ heap' = r.heap
        /\ shards' = r.shards
        /\ last' = Call("Get", key, r.value, r.ok)
        /\ before' = Earlier(last)
        /\ touched' = IF r.ok THEN TouchGet(i, key) ELSE touched
        /\ UNCHANGED <<shardCount, shardMask, shardCapacity, requested, mu, pc>>

\* Put selecting its shard with a mask that is one too small.
PutOtherShard(key, value) ==
    \E i \in {shardIndex(shardMask - 1, key)} :
    \E r \in {PutShard(heap, shards, i, key, value)} :
        /\ heap' = r.heap
        /\ shards' = r.shards
        /\ last' = Call("Put", key, value, FALSE)
        /\ before' = Earlier(last)
        /\ touched' = TouchPut(i, key, value)
        /\ UNCHANGED <<shardCount, shardMask, shardCapacity, requested, mu, pc>>

Put(key, value) ==
    \E i \in {getShard(key)} :
    \E r \in {PutShard(heap, shards, i, key, value)} :
        /\ heap' = r.heap
        /\ shards' = r.shards
        /\ last' = Call("Put", key, value, FALSE)
        /\ before' = Earlier(last)
        /\ touched' = TouchPut(i, key, value)
        /\ UNCHANGED <<shardCount, shardMask, shardCapacity, requested, mu, pc>>

Clear ==
    \E r \in {ClearAll(heap, shards)} :
        /\ heap' = r.heap
        /\ shards' = r.shards
        /\ last' = Call("Clear", NoKey, NilValue, FALSE)
        /\ before' = Earlier(last)
        /\ touched' = NoTouch
        /\ UNCHANGED <<shardCount, shardMask, shardCapacity, requested, mu, pc>>

Next ==
    \/ \E key \in Keys : Get(key)
    \/ \E key \in Keys, value \in Values : Put(key, value)
    \/ Clear

Spec == Init /\ [][Next]_vars

\* ---------------------------------------------------------------- evictLRU

\* evictLRU removing the node after the head where the code removes the
\* node before the tail.
evictMRU(h, sh, i) ==
    LET s   == ShardAt(sh, i)
        mru == NodeAt(h, s.head).next
    IN  IF mru # s.tail
        THEN [heap   |-> removeNode(h, mru),
              shards |-> SetShard(sh, i,
                            [s EXCEPT !.cache = [k \in DOMAIN s.cache \ {NodeAt(h, mru).key}
                                                   |-> s.cache[k]],
                                      !.size = s.size - 1]),
              ok     |-> TRUE]
        ELSE [heap |-> h, shards |-> sh, ok |-> FALSE]

\* evictLRU on shard i: lru := s.tail.prev; unless lru is the head,
\* s.removeNode(lru), delete(s.cache, lru.key), s.size--.  ok tells whether
\* it removed a node.
evictLRU(h, sh, i) ==
    LET s   == ShardAt(sh, i)
        lru == NodeAt(h, s.tail).prev
    IN  IF lru # s.head
        THEN [heap   |-> removeNode(h, lru),
              shards |-> SetShard(sh, i,
                            [s EXCEPT !.cache = [k \in DOMAIN s.cache \ {NodeAt(h, lru).key}
                                                   |-> s.cache[k]],
                                      !.size = s.size - 1]),
              ok     |-> TRUE]
        ELSE [heap |-> h, shards |-> sh, ok |-> FALSE]

\* A caller inside the package runs evictLRU on shard i (no function of
\* the program calls it); the node it unlinked becomes garbage.  The call is
\* remembered with the key that was before the tail.
Evict(i) ==
    \E r \in {evictLRU(heap, shards, i)} :
    \E key \in {NodeAt(heap, NodeAt(heap, ShardAt(shards, i).tail).prev).key} :
        /\ heap' = Collect(r.heap, r.shards)
        /\ shards' = r.shards
        /\ last' = Call("Evict", key, NilValue, r.ok)
        /\ before' = Earlier(last)
        /\ touched' = IF r.ok THEN (i :> Without(Touched(i), key)) @@ touched
                               ELSE touched
        /\ UNCHANGED <<shardCount, shardMask, shardCapacity, requested, mu, pc>>

EvictNext ==
    \/ \E key \in Keys : Get(key)
    \/ \E key \in Keys, value \in Values : Put(key, value)
    \/ Clear
    \/ \E i \in {getShard(key) : key \in Keys} : Evict(i)

\* One NewLRUCache(ConcCapacity) on a machine of ConcCPU processors.
EvictInit == Init /\ requested = ConcCapacity /\ shardCount = numShardsFor(ConcCPU)

EvictSpec == EvictInit /\ [][EvictNext]_vars

\* ------------------------------------------- actions of concurrent callers

\* The shards some key of Keys selects.  Every other shard stays as newShard
\* made it, and is locked only by the loops of Clear, Size and Stats, which
\* leave it as it is: a loop's pass over such shards, one lock and unlock
\* after the other, is taken as part of the loop's step to the next shard
\* that a key selects.
Busy == {getShard(key) : key \in Keys}

\* The first shard at or after index c that a key selects; len(c.shards) if
\* the loop meets no such shard any more.
NextBusy(c) ==
    LET later == {i \in Busy : i >= c}
    IN  IF later = {} THEN shardCount
        ELSE CHOOSE i \in later : \A j \in later : i <= j

\* What the shards c .. d-1, none of them selected by a key, add to a sum
\* of shard.size.
QuietSizes(c, d) == (d - c) * newShard(0, shardCapacity).size

Frame(p, op, at, key, value, shard) ==
    [Idle(pc[p].left) EXCEPT !.op = op, !.at = at, !.key = key,
                             !.value = value, !.shard = shard]

Callable(p) == pc[p].at = "idle" /\ pc[p].left > 0

\* Get is called: shard := c.getShard(key).
CallGet(p, key) ==
    /\ Callable(p)
    /\ pc' = [pc EXCEPT ![p] = Frame(p, "Get", "lock", key, NilValue, getShard(key))]
    /\ UNCHANGED <<shardCount, shardMask, shardCapacity, shards, heap,
                   requested, last, before, touched, mu>>

\* Put is called: shard := c.getShard(key).
CallPut(p, key, value) ==
    /\ Callable(p)
    /\ pc' = [pc EXCEPT ![p] = Frame(p, "Put", "lock", key, value, getShard(key))]
    /\ UNCHANGED <<shardCount, shardMask, shardCapacity, shards, heap,
                   requested, last, before, touched, mu>>

\* Get and Put taking shard.mu.RLock() where the code takes Lock().
LockShared(p) ==
    /\ pc[p].at = "lock"
    /\ MuAt(mu, pc[p].shard).writer = 0
    /\ mu' = SetMu(mu, pc[p].shard,
                   [MuAt(mu, pc[p].shard) EXCEPT !.readers = @ \cup {p}])
    /\ pc' = [pc EXCEPT ![p].at = "lookup"]
    /\ UNCHANGED <<shardCount, shardMask, shardCapacity, shards, heap,
                   requested, last, before, touched>>

\* shard.mu.Lock() of Get and Put.
Lock(p) ==
    /\ pc[p].at = "lock"
    /\ MuAt(mu, pc[p].shard) = Unlocked
    /\ mu' = SetMu(mu, pc[p].shard, [writer |-> p, readers |-> {}])
    /\ pc' = [pc EXCEPT ![p].at = "lookup"]
    /\ UNCHANGED <<shardCount, shardMask, shardCapacity, shards, heap,
                   requested, last, before, touched>>

\* Get: node, exists := shard.cache[key], and the first half of moveToFront.
GetLookup(p) ==
    /\ pc[p].op = "Get" /\ pc[p].at = "lookup"
    /\ \E s \in {ShardAt(shards, pc[p].shard)} :
          IF pc[p].key \in DOMAIN s.cache
          THEN /\ heap' = removeNode(heap, s.cache[pc[p].key])
               /\ pc' = [pc EXCEPT ![p].at = "front", ![p].node = s.cache[pc[p].key]]
          ELSE /\ heap' = heap
               /\ pc' = [pc EXCEPT ![p].at = "unlock", ![p].value = NilValue,
                                    ![p].ok = FALSE]
    /\ UNCHANGED <<shardCount, shardMask, shardCapacity, shards,
                   requested, last, before, touched, mu>>

\* Get: the second half of moveToFront, and return node.value, true.
GetFront(p) ==
    /\ pc[p].op = "Get" /\ pc[p].at = "front"
    /\ heap' = addToFront(heap, ShardAt(shards, pc[p].shard), pc[p].node)
    /\ pc' = [pc EXCEPT ![p].at = "unlock", ![p].ok = TRUE,
                         ![p].value = NodeAt(heap, pc[p].node).value]
    /\ UNCHANGED <<shardCount, shardMask, shardCapacity, shards,
                   requested, last, before, touched, mu>>

\* Put: the lookup; node.value = value and the first half of moveToFront, or
\* newNode := &Node{...} and shard.cache[key] = newNode.
PutLookup(p) ==
    /\ pc[p].op = "Put" /\ pc[p].at = "lookup"
    /\ \E s \in {ShardAt(shards, pc[p].shard)} :
          IF pc[p].key \in DOMAIN s.cache
          THEN /\ heap' = removeNode(SetValue(heap, s.cache[pc[p].key], pc[p].value),
                                     s.cache[pc[p].key])
               /\ shards' = shards
               /\ pc' = [pc EXCEPT ![p].at = "front", ![p].node = s.cache[pc[p].key]]
          ELSE \E newNode \in {Alloc(heap, pc[p].key)} :
               /\ heap' = SetNode(heap, newNode,
                                  [key |-> pc[p].key, value |-> pc[p].value,
                                   prev |-> NilPtr, next |-> NilPtr])
               /\ shards' = SetShard(shards, pc[p].shard,
                                     [s EXCEPT !.cache = (pc[p].key :> newNode) @@ s.cache])
               /\ pc' = [pc EXCEPT ![p].at = "insert", ![p].node = newNode]
    /\ UNCHANGED <<shardCount, shardMask, shardCapacity,
                   requested, last, before, touched, mu>>

\* Put, the key was there: the second half of moveToFront.
PutFront(p) ==
    /\ pc[p].op = "Put" /\ pc[p].at = "front"
    /\ heap' = addToFront(heap, ShardAt(shards, pc[p].shard), pc[p].node)
    /\ pc' = [pc EXCEPT ![p].at = "unlock"]
    /\ UNCHANGED <<shardCount, shardMask, shardCapacity, shards,
                   requested, last, before, touched, mu>>

\* Put of a new key without shard.size++.
PutInsertNoCount(p) ==
    /\ pc[p].op = "Put" /\ pc[p].at = "insert"
    /\ heap' = addToFront(heap, ShardAt(shards, pc[p].shard), pc[p].node)
    /\ shards' = shards
    /\ pc' = [pc EXCEPT ![p].at = "unlock"]
    /\ UNCHANGED <<shardCount, shardMask, shardCapacity,
                   requested, last, before, touched, mu>>

\* Put, the key is new: shard.addToFront(newNode), shard.size++, and the
\* check of shard.size against shard.capacity, which returns either way.
PutInsert(p) ==
    /\ pc[p].op = "Put" /\ pc[p].at = "insert"
    /\ \E s \in {ShardAt(shards, pc[p].shard)} :
          /\ heap' = addToFront(heap, s, pc[p].node)
          /\ shards' = SetShard(shards, pc[p].shard, [s EXCEPT !.size = s.size + 1])
    /\ pc' = [pc EXCEPT ![p].at = "unlock"]
    /\ UNCHANGED <<shardCount, shardMask, shardCapacity,
                   requested, last, before, touched, mu>>

\* Get and Put returning without shard.mu.Unlock().
ReturnLocked(p) ==
    /\ pc[p].at = "unlock"
    /\ mu' = mu
    /\ pc' = [pc EXCEPT ![p] = Idle(pc[p].left - 1)]
    /\ UNCHANGED <<shardCount, shardMask, shardCapacity, shards, heap,
                   requested, last, before, touched>>

\* The deferred shard.mu.Unlock() of Get and Put, and the return.
Unlock(p) ==
    /\ pc[p].at = "unlock"
    /\ mu' = SetMu(mu, pc[p].shard, Unlocked)
    /\ pc' = [pc EXCEPT ![p] = Idle(pc[p].left - 1)]
    /\ UNCHANGED <<shardCount, shardMask, shardCapacity, shards, heap,
                   requested, last, before, touched>>

\* Clear is called; its loop comes to the first shard a key selects.
CallClear(p) ==
    /\ Callable(p)
    /\ pc' = [pc EXCEPT ![p] = Frame(p, "Clear", "sweep", NoKey, NilValue, NextBusy(0))]
    /\ UNCHANGED <<shardCount, shardMask, shardCapacity, shards, heap,
                   requested, last, before, touched, mu>>

\* Clear: shard.mu.Lock() in the loop.
ClearLock(p) ==
    /\ pc[p].op = "Clear" /\ pc[p].at = "sweep"
    /\ pc[p].shard < shardCount
    /\ MuAt(mu, pc[p].shard) = Unlocked
    /\ mu' = SetMu(mu, pc[p].shard, [writer |-> p, readers |-> {}])
    /\ pc' = [pc EXCEPT ![p].at = "clear"]
    /\ UNCHANGED <<shardCount, shardMask, shardCapacity, shards, heap,
                   requested, last, before, touched>>

\* Clear: the four assignments to the shard, shard.mu.Unlock(), and on to
\* the next shard.  The nodes the shard held become garbage.  A Size or
\* Stats under way notes that a Clear wrote during it.
ClearBody(p) ==
    /\ pc[p].op = "Clear" /\ pc[p].at = "clear"
    /\ \E i \in {pc[p].shard} : \E s \in {ShardAt(shards, i)} :
       \E sh1 \in {SetShard(shards, i, ClearShard(s))} :
          /\ shards' = sh1
          /\ heap' = Collect(SetNode(SetNode(heap, s.head, ClearNode(heap, shards, s.head)),
                                     s.tail, ClearNode(heap, shards, s.tail)), sh1)
          /\ mu' = SetMu(mu, i, Unlocked)
          /\ pc' = [q \in Procs |->
                      IF q = p THEN [pc[p] EXCEPT !.at = "sweep", !.shard = NextBusy(i + 1)]
                      ELSE IF pc[q].op \in {"Size", "Stats"}
                           THEN [pc[q] EXCEPT !.cleared = TRUE]
                           ELSE pc[q]]
    /\ UNCHANGED <<shardCount, shardMask, shardCapacity,
                   requested, last, before, touched>>

\* Size is called: total := 0, and the loop comes to the first shard a key
\* selects.
CallSize(p) ==
    /\ Callable(p)
    /\ pc' = [pc EXCEPT ![p] =
                 [Frame(p, "Size", "sweep", NoKey, NilValue, NextBusy(0))
                    EXCEPT !.total = QuietSizes(0, NextBusy(0)), !.base = Size]]
    /\ UNCHANGED <<shardCount, shardMask, shardCapacity, shards, heap,
                   requested, last, before, touched, mu>>

\* Stats is called: totalSize := 0, shardSizes := make([]int, len(c.shards)).
CallStats(p) ==
    /\ Callable(p)
    /\ pc' = [pc EXCEPT ![p] =
                 [Frame(p, "Stats", "sweep", NoKey, NilValue, NextBusy(0))
                    EXCEPT !.total = QuietSizes(0, NextBusy(0)), !.base = Size]]
    /\ UNCHANGED <<shardCount, shardMask, shardCapacity, shards, heap,
                   requested, last, before, touched, mu>>

\* Size and Stats: shard.mu.RLock() in the loop.
RLock(p) ==
    /\ pc[p].op \in {"Size", "Stats"} /\ pc[p].at = "sweep"
    /\ pc[p].shard < shardCount
    /\ MuAt(mu, pc[p].shard).writer = 0
    /\ mu' = SetMu(mu, pc[p].shard,
                   [MuAt(mu, pc[p].shard) EXCEPT !.readers = @ \cup {p}])
    /\ pc' = [pc EXCEPT ![p].at = "read"]
    /\ UNCHANGED <<shardCount, shardMask, shardCapacity, shards, heap,
                   requested, last, before, touched>>

\* c.shards[i].mu.RUnlock().
RUnlocked(m, i, p) == SetMu(m, i, [MuAt(m, i) EXCEPT !.readers = @ \ {p}])

\* Size: total += shard.size, shard.mu.RUnlock(), and on to the next shard.
SizeRead(p) ==
    /\ pc[p].op = "Size" /\ pc[p].at = "read"
    /\ \E i \in {pc[p].shard} : \E n \in {NextBusy(i + 1)} :
          /\ pc' = [pc EXCEPT ![p].at = "sweep", ![p].shard = n,
                               ![p].total = @ + ShardAt(shards, i).size
                                              + QuietSizes(i + 1, n)]
          /\ mu' = RUnlocked(mu, i, p)
    /\ UNCHANGED <<shardCount, shardMask, shardCapacity, shards, heap,
                   requested, last, before, touched>>

\* Stats without totalSize += shard.size.
StatsReadNoTotal(p) ==
    /\ pc[p].op = "Stats" /\ pc[p].at = "read"
    /\ \E i \in {pc[p].shard} : \E n \in {NextBusy(i + 1)} :
          /\ pc' = [pc EXCEPT ![p].at = "sweep", ![p].shard = n,
                               ![p].sizes = (i :> ShardAt(shards, i).size) @@ @]
          /\ mu' = RUnlocked(mu, i, p)
    /\ UNCHANGED <<shardCount, shardMask, shardCapacity, shards, heap,
                   requested, last, before, touched>>

\* Stats: shardSizes[i] = shard.size, totalSize += shard.size,
\* shard.mu.RUnlock(), and on to the next shard.
StatsRead(p) ==
    /\ pc[p].op = "Stats" /\ pc[p].at = "read"
    /\ \E i \in {pc[p].shard} : \E n \in {NextBusy(i + 1)} :
          /\ pc' = [pc EXCEPT ![p].at = "sweep", ![p].shard = n,
                               ![p].sizes = (i :> ShardAt(shards, i).size) @@ @,
                               ![p].total = @ + ShardAt(shards, i).size
                                              + QuietSizes(i + 1, n)]
          /\ mu' = RUnlocked(mu, i, p)
    /\ UNCHANGED <<shardCount, shardMask, shardCapacity, shards, heap,
                   requested, last, before, touched>>

\* The value Size returns, and the map Stats returns (shard_sizes[i] for a
\* shard no key selects is the size newShard gave it).
SizeResult(p) == pc[p].total

StatsResult(p) ==
    [total_size |-> pc[p].total, num_shards |-> shardCount,
     shard_sizes |-> pc[p].sizes]

\* Clear, Size and Stats: the loop is over, the call returns.
Return(p) ==
    /\ pc[p].at = "sweep"
    /\ pc[p].shard = shardCount
    /\ pc' = [pc EXCEPT ![p] = Idle(pc[p].left - 1)]
    /\ UNCHANGED <<shardCount, shardMask, shardCapacity, shards, heap,
                   requested, last, before, touched, mu>>

Step(p) ==
    \/ \E key \in ConcKeys : CallGet(p, key)
    \/ \E key \in ConcKeys, value \in Values : CallPut(p, key, value)
    \/ Lock(p)
    \/ GetLookup(p)
    \/ GetFront(p)
    \/ PutLookup(p)
    \/ PutFront(p)
    \/ PutInsert(p)
    \/ Unlock(p)
    \/ CallClear(p)
    \/ ClearLock(p)
    \/ ClearBody(p)
    \/ CallSize(p)
    \/ CallStats(p)
    \/ RLock(p)
    \/ SizeRead(p)
    \/ StatsRead(p)
    \/ Return(p)

ConcNext == \E p \in Procs : Step(p)

\* The cache the goroutines share: one NewLRUCache(ConcCapacity) on a
\* machine of ConcCPU processors.
ConcInit == Init /\ requested = ConcCapacity /\ shardCount = numShardsFor(ConcCPU)

Conc == ConcInit /\ [][ConcNext]_vars

\* Conc with the scheduling Go gives: a goroutine that can take a step
\* takes it, and a goroutine waiting for a mutex that is free again and
\* again gets it (sync.Mutex and sync.RWMutex do not starve a waiter).
\* NewLRUCache(capacity) on a machine of ncpu processors, shared by
\* goroutines of which each has LiveCalls calls to make, the first goroutine
\* one more.
LiveStart(capacity, ncpu) ==
    /\ \E c \in {NewLRUCache(capacity, ncpu)} :
          /\ shardCount = c.shardCount
          /\ shardMask = c.shardMask
          /\ shardCapacity = c.shardCapacity
          /\ shards = c.shards
          /\ heap = c.heap
    /\ requested = capacity
    /\ last = Call("New", NoKey, NilValue, FALSE)
    /\ before = Earlier(Call("New", NoKey, NilValue, FALSE))
    /\ touched = NoTouch
    /\ mu = NoLocks
    /\ pc = [p \in Procs |-> Idle(IF p = 1 THEN LiveCalls + 1 ELSE LiveCalls)]

LiveInit == LiveStart(ConcCapacity, ConcCPU)

\* The concurrent callers on a cache of any capacity on any machine.
AnyInit == \E capacity \in Capacities, ncpu \in NumCPUs : LiveStart(capacity, ncpu)

ConcAny == AnyInit /\ [][ConcNext]_vars

FairConc == LiveInit /\ [][ConcNext]_vars /\ \A p \in Procs : SF_vars(Step(p))

\* ------------------------------------------------------------ properties

AllShards == 0..(shardCount - 1)

\* The keys in the lookup table of shard i.
ResidentIn(sh, i) == DOMAIN ShardAt(sh, i).cache

Resident(i) == ResidentIn(shards, i)

\* The keys of shard i met walking its list from the head, and from the tail.
ForwardIn(h, sh, i) == Order(h, ShardAt(sh, i))

Forward(i) == ForwardIn(heap, shards, i)

BackwardIn(h, sh, i) ==
    LET ns == NodesBack(h, ShardAt(sh, i))
    IN  [j \in 1..Len(ns) |-> NodeAt(h, ns[j]).key]

Reverse(seq) == [j \in 1..Len(seq) |-> seq[Len(seq) + 1 - j]]

Occurrences(seq, x) == Cardinality({j \in 1..Len(seq) : seq[j] = x})

SkipKey(seq, key) == SelectSeq(seq, LAMBDA k : k # key)

\* The key of shard i that the callers touched longest ago.
LeastRecentlyTouched(i) == Touched(i)[Len(Touched(i))].key

\* C1: after every Put, every shard's size is at most its capacity.
C1_CapacityInvariant ==
    \A i \in AllShards : ShardAt(shards, i).size <= ShardAt(shards, i).capacity

\* C2: a Put of a new key into a shard that holds capacity-many keys removes
\* exactly the key touched longest ago and keeps every other resident key.
C2_EvictsLeastRecentlyTouched ==
    [][last'.op = "Put" =>
        \A i \in {getShard(last'.key)} :
        (/\ last'.key \notin Resident(i)
         /\ Cardinality(Resident(i)) = ShardAt(shards, i).capacity)
        => ResidentIn(shards', i)
               = (Resident(i) \ {LeastRecentlyTouched(i)}) \cup {last'.key}]_vars

\* C3: a Put of a key that is already there (a Put of it came before) leaves
\* one entry for the key, holding the new value, and the shard's size as it
\* was.
C3_Overwrite ==
    [][last'.op = "Put" =>
        \A i \in {getShard(last'.key)} :
        (last'.key \in Resident(i) \/ (last.op = "Put" /\ last.key = last'.key))
        => /\ ShardAt(shards', i).size = ShardAt(shards, i).size
           /\ last'.key \in ResidentIn(shards', i)
           /\ Occurrences(ForwardIn(heap', shards', i), last'.key) = 1
           /\ \A node \in {ShardAt(shards', i).cache[last'.key]} :
                 /\ NodeAt(heap', node).key = last'.key
                 /\ NodeAt(heap', node).value = last'.value
                 /\ Nodes(heap', ShardAt(shards', i))[1] = node]_vars

C3_Witness ==
    /\ last.op = "Put" /\ before.op = "Put"
    /\ before.key = last.key /\ before.value # last.value
    /\ ShardAt(shards, getShard(last.key)).size >= 2

\* C4: the key just put is in its shard's table and list, whatever the
\* shard's capacity, and a Get of it right after the Put returns the value
\* put and found.
C4_PutGetRoundTrip ==
    [][/\ last'.op = "Put" =>
            \A i \in {getShard(last'.key)} :
               /\ last'.key \in ResidentIn(shards', i)
               /\ Occurrences(ForwardIn(heap', shards', i), last'.key) >= 1
       /\ (last.op = "Put" /\ last'.op = "Get" /\ last'.key = last.key)
            => /\ last'.ok
               /\ last'.value = last.value]_vars

C4_Witness ==
    /\ last.op = "Get" /\ last.ok
    /\ before.op = "Put" /\ before.key = last.key /\ before.value = last.value
    /\ \A i \in {getShard(last.key)} :
          ShardAt(shards, i).size > ShardAt(shards, i).capacity

\* C5: a Get of a present key returns found and the value last put for the
\* key, and moves the key to the front of its shard's list, the other keys
\* keeping their order.
C5_GetHit ==
    [][last'.op = "Get" =>
        \A i \in {getShard(last'.key)} :
        last'.key \in Resident(i)
        => /\ last'.ok
           /\ last'.value = PutValue(i, last'.key)
           /\ ForwardIn(heap', shards', i) = <<last'.key>> \o SkipKey(Forward(i), last'.key)
           /\ BackwardIn(heap', shards', i) = Reverse(ForwardIn(heap', shards', i))]_vars

C5_Witness ==
    /\ last.op = "Get" /\ last.ok
    /\ before.op \in {"Get", "Put"} /\ before.key # last.key
    /\ \A i \in {getShard(last.key)} :
          /\ getShard(before.key) = i
          /\ Len(Forward(i)) >= 3
          /\ Forward(i)[1] = last.key

\* C6: a Get of a key that is not in its shard returns not found and leaves
\* every shard's size, table and list as they were.
C6_GetMiss ==
    [][last'.op = "Get" =>
        \A i \in {getShard(last'.key)} :
        last'.key \notin Resident(i)
        => /\ ~last'.ok
           /\ last'.value = NilValue
           /\ shards' = shards
           /\ heap' = heap]_vars

C6_Witness ==
    /\ last.op = "Get" /\ ~last.ok
    /\ \A i \in {getShard(last.key)} :
          /\ last.key \notin Resident(i)
          /\ ShardAt(shards, i).size >= 2

\* Every shard of the cache (h, sh) is empty: size 0, nothing in its table,
\* its two sentinels linked to each other.
AllEmpty(h, sh) ==
    \A i \in AllShards :
       \A s \in {ShardAt(sh, i)} :
          /\ s.size = 0
          /\ DOMAIN s.cache = {}
          /\ NodeAt(h, s.head).next = s.tail
          /\ NodeAt(h, s.tail).prev = s.head

\* C7: after Clear the total size is 0, every shard has an empty table and
\* its two sentinels linked to each other, another Clear changes nothing,
\* and a Get right after it finds nothing.
C7_Clear ==
    /\ [](last.op = "Clear"
            => /\ Size = 0
               /\ AllEmpty(heap, shards)
               /\ ClearAll(heap, shards) = [heap |-> heap, shards |-> shards])
    /\ [][(last.op = "Clear" /\ last'.op = "Get") => ~last'.ok]_vars

C7_Witness ==
    /\ last.op = "Clear" /\ before.op = "Put"
    /\ Size = 0

\* C8: a zero or negative requested capacity is rejected: no cache with
\* shards comes out of the construction.
C8_InvalidCapacityRejected == requested <= 0 => shardCount = 0

\* C9: once the callers' Gets and Puts have returned, Size() is at most the
\* capacity the cache was made with.
C9_SizeWithinCapacity == requested >= 1 => Size <= requested

\* C10: getShard selects an index of c.shards, and for a given key the same
\* index and the same shard object whatever Get, Put and Clear do.
C10_PartitionStable ==
    /\ [](\A key \in Keys : getShard(key) \in AllShards)
    /\ [][/\ shardCount' = shardCount
          /\ \A key \in Keys :
                \A i \in {shardIndex(shardMask, key)} :
                   /\ shardIndex(shardMask', key) = i
                   /\ ShardAt(shards', i).head = ShardAt(shards, i).head
                   /\ ShardAt(shards', i).tail = ShardAt(shards, i).tail]_vars

C10_Witness ==
    /\ last.op = "Put" /\ before.op = "Clear"
    /\ getShard(last.key) >= ShardFloor
    /\ last.key \in Resident(getShard(last.key))

\* Goroutine p is between the Lock (or RLock) and the Unlock of shard i.
Writing(p, i) ==
    pc[p].shard = i /\ pc[p].at \in {"lookup", "front", "insert", "unlock", "clear"}

Reading(p, i) == pc[p].shard = i /\ pc[p].at = "read"

\* Shard i has a node in the middle of a move: in the table, not in the list.
MidMove(i) ==
    \E key \in Resident(i) :
       \A j \in 1..Len(Nodes(heap, ShardAt(shards, i))) :
          Nodes(heap, ShardAt(shards, i))[j] # ShardAt(shards, i).cache[key]

\* C11: while a Get, Put or Clear is inside the critical section of a shard,
\* no other operation (Get, Put, Clear, Size, Stats) is inside that shard's
\* critical section, and a shard with a node in the middle of a move has
\* exactly the moving goroutine inside.
C11_SameShardSerialized ==
    \A p \in Procs : \A i \in {pc[p].shard} :
       Writing(p, i)
       => /\ \A q \in Procs \ {p} : ~Writing(q, i) /\ ~Reading(q, i)
          /\ MuAt(mu, i).writer = p
          /\ MidMove(i) => pc[p].at \in {"front", "insert"}

C11_Witness ==
    \E p, q \in Procs :
       /\ p # q
       /\ pc[p].op = "Get" /\ pc[p].at = "front" /\ MidMove(pc[p].shard)
       /\ pc[q].shard = pc[p].shard /\ pc[q].at = "lock"

\* Goroutine p's loop over the shards is over: the call is about to return.
Returning(p, op) ==
    pc[p].op = op /\ pc[p].at = "sweep" /\ pc[p].shard = shardCount

RECURSIVE SumOver(_, _)
SumOver(f, I) ==
    IF I = {} THEN 0
    ELSE LET i == CHOOSE j \in I : TRUE IN f[i] + SumOver(f, I \ {i})

\* The sum of the shard_sizes of a returned map: its entries written down,
\* and the size newShard gave for each of the other shards.
SumShardSizes(r) ==
    SumOver(r.shard_sizes, DOMAIN r.shard_sizes)
        + (r.num_shards - Cardinality(DOMAIN r.shard_sizes))
              * newShard(0, shardCapacity).size

\* C12: the map Stats returns has total_size equal to the sum of its
\* shard_sizes and num_shards equal to the shard count the cache was made
\* with; each shard_sizes[i] is the size shard i had when Stats read it,
\* holding that shard's read lock with no writer inside, and is not changed
\* afterwards.
C12_StatsSnapshot ==
    /\ [](\A p \in Procs :
           Returning(p, "Stats")
           => /\ StatsResult(p).total_size = SumShardSizes(StatsResult(p))
              /\ StatsResult(p).num_shards = numShardsFor(ConcCPU)
              /\ Busy \subseteq DOMAIN StatsResult(p).shard_sizes)
    /\ [][\A p \in Procs :
           /\ (pc[p].op = "Stats" /\ pc[p].at = "read" /\ pc'[p].at # "read")
              => \A i \in {pc[p].shard} :
                    /\ pc'[p].sizes[i] = ShardAt(shards, i).size
                    /\ p \in MuAt(mu, i).readers
                    /\ \A q \in Procs : ~Writing(q, i)
           /\ (pc[p].op = "Stats" /\ pc'[p].op = "Stats")
              => \A i \in DOMAIN pc[p].sizes : pc'[p].sizes[i] = pc[p].sizes[i]]_vars

C12_Witness ==
    \E p \in Procs :
       /\ Returning(p, "Stats")
       /\ StatsResult(p).total_size >= 1
       /\ StatsResult(p).total_size # Size
       /\ \E q \in Procs : pc[q].op \in {"Put", "Clear"}

\* C13 (the case the code allows, and the case it does not): a Size() that
\* no Clear wrote during returns a count between the true total at its call
\* and the true total at its return, and the true total grows one entry at a
\* time, so the count returned was the true total at some instant of the
\* call.  Only a Put's size++ and a Clear's size = 0 change the true total.
C13_SizeBetweenTotals ==
    /\ [](\A p \in Procs :
           (Returning(p, "Size") /\ ~pc[p].cleared)
           => (pc[p].base <= SizeResult(p) /\ SizeResult(p) <= Size))
    /\ [][\/ SizeOf(shards') = SizeOf(shards)
          \/ SizeOf(shards') = SizeOf(shards) + 1
          \/ \E p \in Procs : pc[p].op = "Clear" /\ pc[p].at = "clear"
                                /\ pc'[p].at = "sweep"]_vars

\* A Size() that returns, with Puts under way, a count that is neither the
\* true total at its call nor the true total at its return.
C13_SizeBetweenWitness ==
    \E p \in Procs :
       /\ Returning(p, "Size") /\ ~pc[p].cleared
       /\ pc[p].base < SizeResult(p) /\ SizeResult(p) < Size

\* The shards whose mutex goroutine p holds, for writing or for reading.
Held(p) == {i \in DOMAIN mu : mu[i].writer = p \/ p \in mu[i].readers}

\* C14: no caller holds more than one shard lock at a time; a Put about to
\* return has stored its key (it has no way to refuse); and under fair
\* scheduling every Get, Put, Clear, Size and Stats that was called returns
\* (so the callers never wait for each other for ever).
C14_Progress ==
    /\ [](/\ \A p \in Procs : Cardinality(Held(p)) <= 1
          /\ \A p \in Procs :
                (pc[p].op = "Put" /\ pc[p].at = "unlock")
                => pc[p].key \in Resident(pc[p].shard))
    /\ \A p \in Procs : (pc[p].at # "idle") ~> (pc[p].at = "idle")

C14_Witness ==
    \E p, q \in Procs :
       /\ pc[p].op = "Clear" /\ pc[p].at = "sweep" /\ pc[p].shard < shardCount
       /\ Reading(q, pc[p].shard)
       /\ Held(p) = {} /\ Held(q) = {pc[p].shard}
       /\ pc[q].total >= 1

\* The shards of which the state (h, sh) writes something down: the shard
\* itself or one of its sentinels.  Every other shard is as newShard made
\* it: size 0, an empty table, the two sentinels linked to each other.
Written(h, sh) ==
    DOMAIN sh \cup {a \div 2 : a \in {b \in DOMAIN h : b < FirstNodeAddr}}

\* Shard i of (h, sh) is consistent: its size, its table and its list, walked
\* from the head and from the tail, hold the same entries.
Consistent(h, sh, i) ==
    \E s \in {ShardAt(sh, i)} : \E ns \in {Nodes(h, s)} :
       /\ s.size = Cardinality(DOMAIN s.cache)
       /\ s.size = Len(ns)
       /\ {ns[j] : j \in 1..Len(ns)} = {s.cache[key] : key \in DOMAIN s.cache}
       /\ \A key \in DOMAIN s.cache : NodeAt(h, s.cache[key]).key = key
       /\ NodesBack(h, s) = Reverse(ns)

\* C15: a shard whose lock no Get, Put or Clear holds has its size equal to
\* the number of keys in its table and to the number of nodes on its list
\* between the sentinels, the list being the table's nodes, linked both ways.
C15_StructuralConsistency ==
    \A i \in Written(heap, shards) \cup Busy :
       MuAt(mu, i).writer = 0 => Consistent(heap, shards, i)

C15_Witness ==
    \E p \in Procs : \E i \in Busy :
       /\ pc[p].op = "Put" /\ pc[p].at = "insert"
       /\ ~Consistent(heap, shards, pc[p].shard)
       /\ i # pc[p].shard
       /\ MuAt(mu, i) = Unlocked
       /\ ShardAt(shards, i).size >= 2

\* The addresses of the nodes on the list of shard i, sentinels left out.
ListNodes(i) ==
    LET ns == Nodes(heap, ShardAt(shards, i)) IN {ns[j] : j \in 1..Len(ns)}

\* C16: a key in a shard's table is in the shard getShard selects for it (so
\* in one table at most); a key is in a shard's table exactly if one node
\* with that key is on that shard's list, and otherwise no node with it is;
\* no table entry is a sentinel, and no node is on the lists of two shards.
C16_NodePlacement ==
    \A i \in Written(heap, shards) \cup Busy :
       /\ \A key \in Resident(i) :
             /\ getShard(key) = i
             /\ ShardAt(shards, i).cache[key] >= FirstNodeAddr
       /\ \A key \in Keys :
             Occurrences(Forward(i), key) = IF key \in Resident(i) THEN 1 ELSE 0
       /\ \A j \in (Written(heap, shards) \cup Busy) \ {i} :
             ListNodes(i) \cap ListNodes(j) = {}

C16_Witness ==
    /\ last.op = "Get" /\ last.ok
    /\ \E i, j \in Busy :
          /\ i # j
          /\ Cardinality(Resident(i)) >= 2
          /\ Cardinality(Resident(j)) >= 1
          /\ getShard(last.key) = i

IsPowerOf2(n) == \E e \in 0..30 : n = 2^e

\* C17: the number of shards is a power of two, shardMask is the number of
\* shards less one, and every index of c.shards is hash & shardMask for
\* some hash (which is so exactly if the index, taken as the hash, selects
\* itself).
C17_ShardCountPowerOf2 ==
    /\ IsPowerOf2(shardCount)
    /\ shardMask = shardCount - 1
    /\ \A i \in AllShards : AndBits(i, shardMask, 32) = i

\* max(1, totalCapacity div shardCount).
ExpectedCapacity ==
    IF requested >= shardCount THEN requested \div shardCount ELSE 1

\* C18: every shard has the capacity max(1, totalCapacity div shardCount)
\* (the shards written down, and shardCapacity for all the others), and no
\* step of Get, Put, Clear, Size or Stats changes a shard's capacity or the
\* number of shards.
C18_ShardSizing ==
    /\ [](/\ shardCapacity = ExpectedCapacity
          /\ \A i \in Written(heap, shards) \cup Busy \cup {0, shardCount - 1} :
                ShardAt(shards, i).capacity = ExpectedCapacity)
    /\ [][/\ shardCount' = shardCount
          /\ shardCapacity' = shardCapacity
          /\ \A i \in DOMAIN shards \cup DOMAIN shards' :
                ShardAt(shards', i).capacity = ShardAt(shards, i).capacity]_vars

C18_Witness ==
    /\ requested < shardCount
    /\ \E p, q \in Procs :
          /\ Returning(p, "Stats") /\ StatsResult(p).total_size >= 1
          /\ pc[q].op = "Clear" /\ pc[q].at = "clear"
          /\ ShardAt(shards, pc[q].shard).size >= 1

\* C19: evictLRU on a shard with entries unlinks exactly the node before the
\* tail, deletes that node's key from the table and takes one off the size,
\* the other entries staying in their order; on an empty shard it changes
\* nothing; it leaves every other shard alone.
C19_EvictLRU ==
    [][last'.op = "Evict" =>
        \E i \in Busy :
           /\ [j \in DOMAIN shards \ {i} |-> shards[j]]
                 = [j \in DOMAIN shards' \ {i} |-> shards'[j]]
           /\ IF Forward(i) = << >>
              THEN /\ ~last'.ok
                   /\ shards' = shards
                   /\ heap' = heap
              ELSE /\ last'.ok
                   /\ last'.key = Forward(i)[Len(Forward(i))]
                   /\ ForwardIn(heap', shards', i) = SubSeq(Forward(i), 1, Len(Forward(i)) - 1)
                   /\ BackwardIn(heap', shards', i) = Reverse(ForwardIn(heap', shards', i))
                   /\ ResidentIn(shards', i) = Resident(i) \ {last'.key}
                   /\ ShardAt(shards', i).size = ShardAt(shards, i).size - 1
                   /\ \A key \in ResidentIn(shards', i) :
                         /\ ShardAt(shards', i).cache[key] = ShardAt(shards, i).cache[key]
                         /\ NodeAt(heap', ShardAt(shards', i).cache[key]).value
                              = NodeAt(heap, ShardAt(shards, i).cache[key]).value]_vars

C19_Witness ==
    /\ last.op = "Evict" /\ last.ok
    /\ before.op = "Get" /\ before.key # last.key
    /\ \E i \in Busy :
          /\ getShard(before.key) = i
          /\ Len(Forward(i)) >= 2
          /\ last.key \notin Resident(i)
          /\ Touched(i) # << >>

\* Shard j is the same in the states (h1, sh1, m1) and (h2, sh2, m2): its
\* size, capacity and table, the nodes on its list with what they hold, its
\* sentinels, and who holds its lock.
SameShard(h1, sh1, m1, h2, sh2, m2, j) ==
    /\ ShardAt(sh2, j) = ShardAt(sh1, j)
    /\ MuAt(m2, j) = MuAt(m1, j)
    /\ NodeAt(h2, HeadOf(j)) = NodeAt(h1, HeadOf(j))
    /\ NodeAt(h2, TailOf(j)) = NodeAt(h1, TailOf(j))
    /\ \E ns \in {Nodes(h1, ShardAt(sh1, j))} :
          /\ Nodes(h2, ShardAt(sh2, j)) = ns
          /\ \A k \in 1..Len(ns) : NodeAt(h2, ns[k]) = NodeAt(h1, ns[k])

\* C20: a step of a Get or a Put changes only the shard getShard selects for
\* its key: every other shard keeps its size, table, recency list and lock
\* state (the shards written down before or after the step, the shards a key
\* selects, and with them all those that stay as newShard made them).
C20_ShardIndependence ==
    [][\A p \in Procs :
          (pc'[p] # pc[p] /\ (pc[p].op \in {"Get", "Put"} \/ pc'[p].op \in {"Get", "Put"}))
          => \E i \in {IF pc[p].op \in {"Get", "Put"} THEN pc[p].shard ELSE pc'[p].shard} :
                /\ i = shardIndex(shardMask, IF pc[p].op \in {"Get", "Put"}
                                             THEN pc[p].key ELSE pc'[p].key)
                /\ DOMAIN mu \cup DOMAIN mu' \subseteq Busy
                /\ \A j \in (Written(heap, shards) \cup Busy) \ {i} :
                      SameShard(heap, shards, mu, heap', shards', mu', j)
                /\ \A j \in DOMAIN shards' \ {i} : j \in DOMAIN shards
                /\ \A a \in DOMAIN heap' :
                      a < FirstNodeAddr => (a \div 2 = i \/ a \in DOMAIN heap)]_vars

C20_Witness ==
    \E p, q \in Procs :
       /\ pc[p].op = "Put" /\ pc[p].at = "unlock"
       /\ pc[q].shard # pc[p].shard
       /\ Writing(q, pc[q].shard) \/ Reading(q, pc[q].shard)
       /\ ShardAt(shards, pc[q].shard).size >= 1
       /\ ShardAt(shards, pc[p].shard).size >= 2

=============================================================================
